---- MODULE Spec2Model ----
(***************************************************************************)
(* Model of pyramid_heroku/migrate.py: the Heroku class that runs a        *)
(* graceful alembic migration (maintenance on, scale down, upgrade, scale  *)
(* up, maintenance off) against the Heroku platform API.                   *)
(*                                                                         *)
(* A run is one call of Heroku.migrate() on a freshly constructed object.  *)
(* Every request to the platform API and every alembic invocation is one   *)
(* step; what the platform or the process answers is the step's input.     *)
(***************************************************************************)
EXTENDS Integers, Sequences, FiniteSets, TLC

(* ------------------------------ bounds --------------------------------- *)

\* largest replica count of a process type
MaxQty == 1

\* exit statuses of an alembic process range over 0..MaxExit
MaxExit == 1

\* longest output of 'alembic current' the status specification draws
MaxOut == 5

(* ------------------------- program constants --------------------------- *)

\* sleep(30)
SleepSeconds == 30

\* the status parse_response compares with
StatusOK == 200

\* exit status of the interpreter after an uncaught exception
ExitUncaught == 1

\* exit status of the interpreter after main() returns
ExitSuccess == 0

\* a run that has not exited yet
NotExited == -1

(* --------------------------- input domains ----------------------------- *)

\* runs (processes executing main()); Spec starts only the first one
Proc == {1, 2}

\* process types of the app
Types == {"web", "worker"}

EmptyFormation == [t \in {} |-> 0]

\* every formation: a mapping from some of the types to a replica count
Formations == UNION {[D -> 0..MaxQty] : D \in SUBSET Types}

\* the formations an app starts with: no process type, or a count for each type
AppFormations == {EmptyFormation} \cup [Types -> 0..MaxQty]

\* final status codes requests can hand back
Statuses == {200, 201, 304, 404, 500}

\* a body that is a JSON array of {type, quantity} objects naming formation f
\* (for the empty formation: any JSON whose iteration yields nothing, [] or {})
Array(f) == [kind |-> "array", items |-> f]

\* what res.json() finds in the body: an array of {type, quantity} objects,
\* whatever formation it names; some other JSON (the app object, an error
\* object, null, a string, [1]); or no JSON at all
Bodies ==
  {Array(f) : f \in Formations}
    \cup {[kind |-> k, items |-> EmptyFormation] : k \in {"other_json", "invalid"}}

\* the answers of the platform: any status with any body
Responses == [status : Statuses, body : Bodies]

\* the answers to a PATCH: the run does no more with an array than iterate
\* over it and print its elements, so the empty array stands for every array
PatchResponses ==
  {res \in Responses : res.body.kind = "array" => res.body.items = EmptyFormation}

\* the token needs_migrate looks for
HeadToken == <<"h", "e", "a", "d">>

\* sample standard outputs of 'alembic current'
Outputs ==
  { <<"a", "1">>,
    <<"a", "1", " ", "(", "h", "e", "a", "d", ")">>,
    <<"h", "e", "a", "d">> }

\* what a finished alembic process hands back: exit status and stdout, which
\* is the UTF-8 encoding of the text out or is not UTF-8 at all
ProcResults == [exit : 0..MaxExit, out : Outputs, utf8 : BOOLEAN]

\* the characters of the outputs the status specification draws
Alphabet == {"h", "e", "a", "d", "x"}

\* every text over the alphabet of at most MaxOut characters
Texts == UNION {[1..n -> Alphabet] : n \in 0..MaxOut}

\* every such text as the stdout of a finished 'alembic current'
TextResults == [exit : 0..MaxExit, out : Texts, utf8 : BOOLEAN]

VARIABLES
  app,         \* the remote app: [formation, maintenance]
  app0,        \* the remote app as it was before any run started
  pc,          \* pc[r]: the statement of migrate() run r is at
  _formation,  \* _formation[r]: self._formation
  cmd,         \* cmd[r]: the output needs_migrate read
  calls,       \* calls[r]: requests, process invocations and sleeps so far
  failed_at,   \* failed_at[r]: the method whose exception ended the run
  exit_code,   \* exit_code[r]: exit status of the run
  splits,      \* splits[r]: shlex.split accepts the command lines built from
               \* ini_file and app_section (their quotes are balanced)
  malformed    \* malformed[r]: what run r was handed off contract so far:
               \* "body" (a 200 answer whose body the run could not read),
               \* "formation" (an answer to GET formation naming another
               \* formation than the platform holds), "output" (process
               \* output that is not UTF-8)

vars ==
  <<app, app0, pc, _formation, cmd, calls, failed_at, exit_code, splits, malformed>>

(* ----------------------------- helpers --------------------------------- *)

\* self._formation = None
None == [set |-> FALSE, map |-> EmptyFormation]

Some(f) == [set |-> TRUE, map |-> f]

\* Python truth value of self._formation: None and the empty dict are false
Truthy(v) == v.set /\ DOMAIN v.map # {}

\* a search that stops one position short of the end of s
Contains_short(s, tok) ==
  \E i \in 1..(Len(s) - Len(tok)) : SubSeq(s, i, i + Len(tok) - 1) = tok

\* 'tok in s' on strings: tok is a contiguous part of s
Contains(s, tok) ==
  \E i \in 1..(Len(s) - Len(tok) + 1) : SubSeq(s, i, i + Len(tok) - 1) = tok

\* one entry of the call record
Call(op, maintenance, updates, secs, status) ==
  [op |-> op, maintenance |-> maintenance, updates |-> updates,
   secs |-> secs, status |-> status]

IsApi(c) == c.op \in {"GET formation", "PATCH formation", "PATCH app"}

IsProcess(c) == c.op \in {"alembic current", "alembic upgrade head"}

(* --------------------------- the platform ------------------------------ *)

\* the platform carries out a PATCH exactly when it answers 2xx
Accepted(status) == status >= 200 /\ status < 300

\* PATCH /apps/{app}/formation {updates: [...]}
PatchFormation(a, updates, status) ==
  IF Accepted(status)
  THEN [a EXCEPT !.formation =
          [t \in DOMAIN a.formation |->
             IF t \in DOMAIN updates THEN updates[t] ELSE a.formation[t]]]
  ELSE a

\* PATCH /apps/{app} {maintenance: state}
PatchApp(a, state, status) ==
  IF Accepted(status) THEN [a EXCEPT !.maintenance = state] ELSE a

(* --------------------------- Heroku methods ---------------------------- *)

\* parse_response: "True", or the exception it raises
parse_response(res) ==
  IF res.status # StatusOK /\ res.body.kind = "invalid" THEN "JSONDecodeError"
  ELSE IF res.status >= 400 /\ res.status < 600 THEN "HTTPError"
  ELSE "True"

\* iterating res.json() and reading x["type"], x["quantity"] of each element
\* goes through: the body is an array of {type, quantity} objects, or its
\* iteration yields nothing
ReadsAsFormation(res) == res.body.kind = "array"

\* {x['type']: x['quantity'] for x in res.json()}: the formation the body
\* names, whatever the platform holds
FormationIn(res) == res.body.items

\* a shell that hands back the output whatever the exit status
shell_unchecked(proc) ==
  IF ~proc.utf8 THEN [raised |-> TRUE, out |-> <<>>]
  ELSE [raised |-> FALSE, out |-> proc.out]

\* shell, once shlex.split has returned: subprocess.check_output raises on a
\* nonzero exit status, .decode() raises on output that is not UTF-8
shell(proc) ==
  IF proc.exit # 0 THEN [raised |-> TRUE, out |-> <<>>]
  ELSE IF ~proc.utf8 THEN [raised |-> TRUE, out |-> <<>>]
  ELSE [raised |-> FALSE, out |-> proc.out]

\* a needs_migrate with the test inverted
needs_migrate_inverted(out) == Contains(out, HeadToken)

\* needs_migrate, given the output of 'alembic current'
needs_migrate(out) == ~Contains(out, HeadToken)

\* a scale_down that names every process type it knows of, in the formation or not
ScaleDownUpdates_all_types(f) == [t \in Types |-> 0]

\* a scale_down that sends the current counts
ScaleDownUpdates_keep(f) == [t \in DOMAIN f |-> f[t]]

\* the update list of scale_down
ScaleDownUpdates(f) == [t \in DOMAIN f |-> 0]

\* a scale_up that starts one process of every type
ScaleUpUpdates_one(f) == [t \in DOMAIN f |-> 1]

\* a scale_up that sends 0 for every type
ScaleUpUpdates_zero(f) == [t \in DOMAIN f |-> 0]

\* the update list of scale_up
ScaleUpUpdates(f) == [t \in DOMAIN f |-> f[t]]

\* a migrate() that does not wait before it runs alembic
Migrate_next_no_drain(p) ==
  CASE p = "needs_migrate"         -> "set_maintenance_True"
    [] p = "set_maintenance_True"  -> "scale_down"
    [] p = "scale_down"            -> "alembic"
    [] p = "sleep_1"               -> "alembic"
    [] p = "alembic"               -> "scale_up"
    [] p = "scale_up"              -> "sleep_2"
    [] p = "sleep_2"               -> "set_maintenance_False"
    [] p = "set_maintenance_False" -> "returned"

\* a migrate() that scales down before it enables maintenance mode
Migrate_next_scale_first(p) ==
  CASE p = "needs_migrate"         -> "scale_down"
    [] p = "scale_down"            -> "set_maintenance_True"
    [] p = "set_maintenance_True"  -> "sleep_1"
    [] p = "sleep_1"               -> "alembic"
    [] p = "alembic"               -> "scale_up"
    [] p = "scale_up"              -> "sleep_2"
    [] p = "sleep_2"               -> "set_maintenance_False"
    [] p = "set_maintenance_False" -> "returned"

\* a migrate() that runs alembic before it scales down
Migrate_next_upgrade_first(p) ==
  CASE p = "needs_migrate"         -> "set_maintenance_True"
    [] p = "set_maintenance_True"  -> "alembic"
    [] p = "alembic"               -> "scale_down"
    [] p = "scale_down"            -> "sleep_1"
    [] p = "sleep_1"               -> "scale_up"
    [] p = "scale_up"              -> "sleep_2"
    [] p = "sleep_2"               -> "set_maintenance_False"
    [] p = "set_maintenance_False" -> "returned"

\* a migrate() that returns without disabling maintenance mode
Migrate_next_stay_down(p) ==
  CASE p = "needs_migrate"         -> "set_maintenance_True"
    [] p = "set_maintenance_True"  -> "scale_down"
    [] p = "scale_down"            -> "sleep_1"
    [] p = "sleep_1"               -> "alembic"
    [] p = "alembic"               -> "scale_up"
    [] p = "scale_up"              -> "sleep_2"
    [] p = "sleep_2"               -> "returned"
    [] p = "set_maintenance_False" -> "returned"

\* migrate(): the statement that follows statement p when p does not raise
Migrate_next(p) ==
  CASE p = "needs_migrate"         -> "set_maintenance_True"
    [] p = "set_maintenance_True"  -> "scale_down"
    [] p = "scale_down"            -> "sleep_1"
    [] p = "sleep_1"               -> "alembic"
    [] p = "alembic"               -> "scale_up"
    [] p = "scale_up"              -> "sleep_2"
    [] p = "sleep_2"               -> "set_maintenance_False"
    [] p = "set_maintenance_False" -> "returned"

\* the statement of migrate() a position of a run lies in
StatementOf(p) ==
  CASE p = "scale_down_patch" -> "scale_down"
    [] p = "scale_up_patch" -> "scale_up"
    [] OTHER -> p

\* the method a position of a run lies in
MethodOf(p) ==
  CASE p \in {"set_maintenance_True", "set_maintenance_False"} -> "set_maintenance"
    [] OTHER -> StatementOf(p)

\* a migrate() that swallows the exception and goes on with the next statement
Unwind_swallowed(p) == Migrate_next(StatementOf(p))

\* where control goes when statement p raises: nothing catches it
Unwind(p) == "raised"

(* ------------------------------ state ---------------------------------- *)

Init ==
  /\ app \in [formation : AppFormations, maintenance : BOOLEAN]
  /\ app0 = app
  /\ pc = [r \in Proc |-> IF r = 1 THEN "needs_migrate" ELSE "not_invoked"]
  /\ _formation = [r \in Proc |-> None]
  /\ cmd = [r \in Proc |-> <<>>]
  /\ calls = [r \in Proc |-> <<>>]
  /\ failed_at = [r \in Proc |-> "none"]
  /\ exit_code = [r \in Proc |-> NotExited]
  /\ splits \in [Proc -> BOOLEAN]
  /\ \A r \in Proc : r # 1 => splits[r]
  /\ malformed = [r \in Proc |-> {}]

\* the call is recorded
Record(r, c) == calls' = [calls EXCEPT ![r] = Append(@, c)]

\* the answer to PATCH formation is noted if it has status 200 and a body
\* that cannot be read as an array of {type, quantity} objects
NoteArray(r, res) ==
  malformed' = [malformed EXCEPT ![r] =
                  IF res.status = StatusOK /\ ~ReadsAsFormation(res)
                  THEN @ \cup {"body"} ELSE @]

\* the answer to GET formation is noted if it has status 200 and a body that
\* cannot be read, or is read and names a formation other than f, the one the
\* platform holds
NoteFormation(r, res, f) ==
  malformed' = [malformed EXCEPT ![r] =
                  IF res.status = StatusOK /\ ~ReadsAsFormation(res)
                  THEN @ \cup {"body"}
                  ELSE IF parse_response(res) = "True" /\ ReadsAsFormation(res)
                          /\ FormationIn(res) # f
                  THEN @ \cup {"formation"}
                  ELSE @]

\* the result of a process is noted if it exited with 0 and its output is not UTF-8
NoteOutput(r, proc) ==
  malformed' = [malformed EXCEPT ![r] =
                  IF proc.exit = 0 /\ ~proc.utf8 THEN @ \cup {"output"} ELSE @]

\* the statement completed; control moves to p
Goto(r, p) ==
  /\ pc' = [pc EXCEPT ![r] = p]
  /\ exit_code' = [exit_code EXCEPT ![r] = IF p = "returned" THEN ExitSuccess ELSE @]
  /\ UNCHANGED failed_at

\* the statement raised
Raise(r) ==
  /\ pc' = [pc EXCEPT ![r] = Unwind(pc[r])]
  /\ failed_at' = [failed_at EXCEPT ![r] = MethodOf(pc[r])]
  /\ exit_code' = [exit_code EXCEPT ![r] = ExitUncaught]

\* if self.needs_migrate(): ... else: print('Database migration is not needed')
NeedsMigrateOn(r, results) ==
  /\ pc[r] = "needs_migrate"
  /\ IF ~splits[r]
     THEN \* shlex.split raises ValueError: no process is started
          Raise(r) /\ UNCHANGED <<calls, cmd, malformed>>
     ELSE \E proc \in results :
            LET sh == shell(proc) IN
            /\ Record(r, Call("alembic current", FALSE, EmptyFormation, 0, proc.exit))
            /\ NoteOutput(r, proc)
            /\ IF sh.raised
               THEN Raise(r) /\ UNCHANGED cmd
               ELSE /\ cmd' = [cmd EXCEPT ![r] = sh.out]
                    /\ Goto(r, IF needs_migrate(sh.out)
                               THEN Migrate_next("needs_migrate") ELSE "returned")
  /\ UNCHANGED <<app, app0, _formation, splits>>

NeedsMigrate(r) == NeedsMigrateOn(r, ProcResults)

\* self.set_maintenance(True) and self.set_maintenance(False)
SetMaintenanceOn(r, answers) ==
  /\ pc[r] \in {"set_maintenance_True", "set_maintenance_False"}
  /\ LET state == (pc[r] = "set_maintenance_True") IN
     \E res \in answers :
       /\ Record(r, Call("PATCH app", state, EmptyFormation, 0, res.status))
       /\ app' = PatchApp(app, state, res.status)
       /\ IF parse_response(res) = "True"
          THEN Goto(r, Migrate_next(pc[r]))
          ELSE Raise(r)
  /\ UNCHANGED <<app0, _formation, cmd, splits, malformed>>

SetMaintenance(r) == SetMaintenanceOn(r, PatchResponses)

\* the formation property when self._formation is None or empty: GET and cache
FormationGetOn(r, answers) ==
  /\ pc[r] \in {"scale_down", "scale_up"}
  /\ ~Truthy(_formation[r])
  /\ \E res \in answers :
       /\ Record(r, Call("GET formation", FALSE, EmptyFormation, 0, res.status))
       /\ NoteFormation(r, res, app.formation)
       /\ IF parse_response(res) = "True" /\ ReadsAsFormation(res)
          THEN /\ _formation' = [_formation EXCEPT ![r] =
                                    Some(FormationIn(res))]
               /\ Goto(r, IF pc[r] = "scale_down"
                          THEN "scale_down_patch" ELSE "scale_up_patch")
          ELSE Raise(r) /\ UNCHANGED _formation
  /\ UNCHANGED <<app, app0, cmd, splits>>

FormationGet(r) == FormationGetOn(r, Responses)

\* scale_down, once self.formation has been read
ScaleDownOn(r, answers) ==
  /\ \/ pc[r] = "scale_down" /\ Truthy(_formation[r])
     \/ pc[r] = "scale_down_patch"
  /\ LET updates == ScaleDownUpdates(_formation[r].map) IN
     \E res \in answers :
       /\ Record(r, Call("PATCH formation", FALSE, updates, 0, res.status))
       /\ NoteArray(r, res)
       /\ app' = PatchFormation(app, updates, res.status)
       /\ IF parse_response(res) = "True" /\ ReadsAsFormation(res)
          THEN Goto(r, Migrate_next("scale_down"))
          ELSE Raise(r)
  /\ UNCHANGED <<app0, _formation, cmd, splits>>

ScaleDown(r) == ScaleDownOn(r, PatchResponses)

\* scale_up, once self.formation has been read
ScaleUpOn(r, answers) ==
  /\ \/ pc[r] = "scale_up" /\ Truthy(_formation[r])
     \/ pc[r] = "scale_up_patch"
  /\ LET updates == ScaleUpUpdates(_formation[r].map) IN
     \E res \in answers :
       /\ Record(r, Call("PATCH formation", FALSE, updates, 0, res.status))
       /\ NoteArray(r, res)
       /\ app' = PatchFormation(app, updates, res.status)
       /\ IF parse_response(res) = "True" /\ ReadsAsFormation(res)
          THEN Goto(r, Migrate_next("scale_up"))
          ELSE Raise(r)
  /\ UNCHANGED <<app0, _formation, cmd, splits>>

ScaleUp(r) == ScaleUpOn(r, PatchResponses)

\* sleep(30)
Sleep(r) ==
  /\ pc[r] \in {"sleep_1", "sleep_2"}
  /\ Record(r, Call("sleep", FALSE, EmptyFormation, SleepSeconds, 0))
  /\ Goto(r, Migrate_next(pc[r]))
  /\ UNCHANGED <<app, app0, _formation, cmd, splits, malformed>>

\* print(self.alembic())
AlembicOn(r, results) ==
  /\ pc[r] = "alembic"
  /\ IF ~splits[r]
     THEN \* shlex.split raises ValueError: no process is started
          Raise(r) /\ UNCHANGED <<calls, malformed>>
     ELSE \E proc \in results :
            /\ Record(r, Call("alembic upgrade head", FALSE, EmptyFormation, 0, proc.exit))
            /\ NoteOutput(r, proc)
            /\ IF shell(proc).raised
               THEN Raise(r)
               ELSE Goto(r, Migrate_next("alembic"))
  /\ UNCHANGED <<app, app0, _formation, cmd, splits>>

Alembic(r) == AlembicOn(r, ProcResults)

Next ==
  \E r \in Proc :
    \/ NeedsMigrate(r)
    \/ SetMaintenance(r)
    \/ FormationGet(r)
    \/ ScaleDown(r)
    \/ ScaleUp(r)
    \/ Sleep(r)
    \/ Alembic(r)

Spec == Init /\ [][Next]_vars

\* the status check alone, over every text of at most MaxOut characters
NextStatus == \E r \in Proc : NeedsMigrateOn(r, TextResults)

SpecStatus == Init /\ [][NextStatus]_vars

\* two invocations for the same app: the platform answers 200 with the
\* formation it holds or 500 with an error object, the status command finds
\* the schema behind or at head
Responses2 ==
  { [status |-> 200, body |-> Array(app.formation)],
    [status |-> 500, body |-> [kind |-> "other_json", items |-> EmptyFormation]] }

ProcResults2 ==
  [exit : 0..MaxExit, out : {<<"a", "1">>, <<"h", "e", "a", "d">>}, utf8 : {TRUE}]

Init2 ==
  /\ app \in [formation : AppFormations, maintenance : BOOLEAN]
  /\ app0 = app
  /\ pc = [r \in Proc |-> "needs_migrate"]
  /\ _formation = [r \in Proc |-> None]
  /\ cmd = [r \in Proc |-> <<>>]
  /\ calls = [r \in Proc |-> <<>>]
  /\ failed_at = [r \in Proc |-> "none"]
  /\ exit_code = [r \in Proc |-> NotExited]
  /\ splits = [r \in Proc |-> TRUE]
  /\ malformed = [r \in Proc |-> {}]

\* one step of run r; nothing in it looks at the other run
RunStep(r) ==
  \/ NeedsMigrateOn(r, ProcResults2)
  \/ SetMaintenanceOn(r, Responses2)
  \/ FormationGetOn(r, Responses2)
  \/ ScaleDownOn(r, Responses2)
  \/ ScaleUpOn(r, Responses2)
  \/ Sleep(r)
  \/ AlembicOn(r, ProcResults2)

Next2 == \E r \in Proc : RunStep(r)

Spec2 == Init2 /\ [][Next2]_vars

(* ============================== claims ================================= *)

\* the requests run r has sent to the platform API, in order
ApiCalls(r) == SelectSeq(calls[r], IsApi)

IsMutating(c) == c.op \notin {"GET formation", "alembic current"}

\* a call without the answer it got
Request(c) ==
  [op |-> c.op, maintenance |-> c.maintenance, updates |-> c.updates, secs |-> c.secs]

\* the mutating calls of run r, in order, without their answers
MutatingRequests(r) ==
  LET m == SelectSeq(calls[r], IsMutating) IN [i \in 1..Len(m) |-> Request(m[i])]

IsPrefix(s, t) == Len(s) <= Len(t) /\ SubSeq(t, 1, Len(s)) = s

\* the status command of run r exited with 0 and its output, decoded, is in cmd[r]
StatusRead(r) ==
  /\ calls[r] # <<>>
  /\ calls[r][1].status = 0
  /\ failed_at[r] # "needs_migrate"

\* run r took the migrate branch: the status command succeeded without the head token
Migrates(r) == StatusRead(r) /\ ~Contains(cmd[r], HeadToken)

\* C1: when the output of 'alembic current' contains the head token, the run
\* returns with exit status 0 having sent no request to the platform API, and
\* the remote formation and maintenance flag are as they were before the run.
C1_UpToDateTouchesNothing ==
  \A r \in Proc :
    (StatusRead(r) /\ Contains(cmd[r], HeadToken))
      => /\ pc[r] = "returned"
         /\ exit_code[r] = ExitSuccess
         /\ ApiCalls(r) = <<>>
         /\ Len(calls[r]) = 1
         /\ app = app0

C1_Witness ==
  \E r \in Proc :
    /\ pc[r] = "returned"
    /\ Contains(cmd[r], HeadToken)
    /\ Len(cmd[r]) > Len(HeadToken)
    /\ app.maintenance
    /\ \E t \in DOMAIN app.formation : app.formation[t] > 0

\* the mutating calls of a complete migrating run over formation f
ExpectedSequence(f) ==
  << [op |-> "PATCH app", maintenance |-> TRUE, updates |-> EmptyFormation, secs |-> 0],
     [op |-> "PATCH formation", maintenance |-> FALSE,
      updates |-> [t \in DOMAIN f |-> 0], secs |-> 0],
     [op |-> "sleep", maintenance |-> FALSE, updates |-> EmptyFormation, secs |-> 30],
     [op |-> "alembic upgrade head", maintenance |-> FALSE,
      updates |-> EmptyFormation, secs |-> 0],
     [op |-> "PATCH formation", maintenance |-> FALSE, updates |-> f, secs |-> 0],
     [op |-> "sleep", maintenance |-> FALSE, updates |-> EmptyFormation, secs |-> 30],
     [op |-> "PATCH app", maintenance |-> FALSE, updates |-> EmptyFormation, secs |-> 0] >>

\* the number of GET formation requests run r has sent
FormationGets(r) == Len(SelectSeq(calls[r], LAMBDA c : c.op = "GET formation"))

\* every answer run r read so far had a body it could read, and every
\* formation it read was the one the platform held
BodiesDocumented(r) == malformed[r] \cap {"body", "formation"} = {}

\* the types scale_down of run r knew of: those of the formation it read,
\* which was empty if the run had to read the formation a second time
TypesAtScaleDown(r) ==
  IF FormationGets(r) <= 1 THEN DOMAIN _formation[r].map ELSE {}

\* C2: in a run that migrates, the mutating calls made so far are always an
\* initial part of: set_maintenance(True), scale_down with every type the run
\* read at 0, a 30-unit wait, alembic upgrade, scale_up with the cached
\* counts, a 30-unit wait, set_maintenance(False); a run that returns has made
\* all seven, each exactly once; and when the platform's answers carry the
\* documented bodies, the types are those of the app and the counts of
\* scale_up are the original ones.
C2_MutatingCallOrder ==
  \A r \in Proc :
    Migrates(r)
      => LET m == MutatingRequests(r)
             e == ExpectedSequence(EmptyFormation)
         IN  /\ Len(m) <= 7
             /\ \A i \in 1..Len(m) :
                  /\ m[i].op = e[i].op
                  /\ m[i].maintenance = e[i].maintenance
                  /\ m[i].secs = e[i].secs
                  /\ m[i].updates =
                       CASE i = 2 -> [t \in TypesAtScaleDown(r) |-> 0]
                         [] i = 5 -> _formation[r].map
                         [] OTHER -> EmptyFormation
             /\ pc[r] = "returned" => Len(m) = 7
             /\ BodiesDocumented(r) => IsPrefix(m, ExpectedSequence(app0.formation))

C2_Witness ==
  \E r \in Proc :
    /\ pc[r] = "returned"
    /\ Migrates(r)
    /\ Len(MutatingRequests(r)) = 7
    /\ \E t \in DOMAIN app0.formation : app0.formation[t] > 0

\* C3 as stated: the first request a run sends to the platform API is GET
\* formation (the formation is fetched before maintenance mode is enabled).
C3_FormationFetchedFirst ==
  \A r \in Proc : ApiCalls(r) # <<>> => ApiCalls(r)[1].op = "GET formation"

\* C3 amended: in a run that migrates, the first request the platform API
\* receives is PATCH maintenance=true; GET formation is the second request,
\* sent by scale_down after maintenance mode has been enabled, and the
\* formation is cached before the first PATCH formation.
C3_MaintenanceThenFormation ==
  \A r \in Proc :
    LET a == ApiCalls(r) IN
    /\ (Migrates(r) /\ pc[r] # "set_maintenance_True") => a # <<>>
    /\ a # <<>> => a[1].op = "PATCH app" /\ a[1].maintenance
    /\ Len(a) >= 2 => a[2].op = "GET formation"
    /\ \A i \in 1..Len(a) :
         a[i].op = "PATCH formation"
           => _formation[r].set /\ \E j \in 1..(i - 1) : a[j].op = "GET formation"

C3_Witness ==
  \E r \in Proc :
    LET a == ApiCalls(r) IN
    /\ Len(a) >= 3
    /\ a[1].op = "PATCH app"
    /\ a[2].op = "GET formation"
    /\ a[3].op = "PATCH formation"
    /\ DOMAIN _formation[r].map # {}

\* C4 as stated: every answer of the platform with a status other than 200
\* makes parse_response raise and ends the run: the call that got it is the
\* last call of the run and the run has failed.
C4_Non200IsFatal ==
  \A r \in Proc :
    \A i \in 1..Len(calls[r]) :
      (IsApi(calls[r][i]) /\ calls[r][i].status # 200)
        => (i = Len(calls[r]) /\ failed_at[r] # "none")

\* the answer to the call made the call raise under raise_for_status or check_output
IsError(c) ==
  \/ IsApi(c) /\ c.status >= 400
  \/ IsProcess(c) /\ c.status # 0

\* run r has started alembic upgrade or sent set_maintenance(False)
WentOn(r) ==
  \E i \in 1..Len(calls[r]) :
    \/ calls[r][i].op = "alembic upgrade head"
    \/ calls[r][i].op = "PATCH app" /\ ~calls[r][i].maintenance

\* C5: a call that is answered with an error status (4xx or 5xx from the
\* platform, nonzero exit from alembic) is the last call of its run and the
\* run has failed; a failed run has exited with the uncaught exception and
\* from then on makes no call and never leaves the failed state; a run that
\* failed in scale_down has run no alembic upgrade and sent no
\* set_maintenance(False).
C5_FailureIsTerminal ==
  /\ [](\A r \in Proc :
          /\ \A i \in 1..Len(calls[r]) :
               IsError(calls[r][i]) => (i = Len(calls[r]) /\ failed_at[r] # "none")
          /\ failed_at[r] # "none" => (pc[r] = "raised" /\ exit_code[r] = ExitUncaught)
          /\ failed_at[r] = "scale_down" => ~WentOn(r))
  /\ [][\A r \in Proc :
          failed_at[r] # "none"
            => /\ calls'[r] = calls[r]
               /\ pc'[r] = pc[r]
               /\ failed_at'[r] = failed_at[r]
               /\ exit_code'[r] = exit_code[r]]_vars

C5_Witness ==
  \E r \in Proc :
    /\ failed_at[r] = "scale_down"
    /\ calls[r][Len(calls[r])].op = "PATCH formation"
    /\ calls[r][Len(calls[r])].status = 500
    /\ app.maintenance /\ ~app0.maintenance

\* C6: when the status command exits with a nonzero status, the run fails in
\* needs_migrate with that one call made: no request has been sent to the
\* platform API and the remote formation and maintenance flag are as they
\* were before the run.
C6_StatusFailureAbortsUntouched ==
  \A r \in Proc :
    (calls[r] # <<>> /\ calls[r][1].status # 0)
      => /\ failed_at[r] = "needs_migrate"
         /\ pc[r] = "raised"
         /\ exit_code[r] = ExitUncaught
         /\ Len(calls[r]) = 1
         /\ app = app0

C6_Witness ==
  \E r \in Proc :
    /\ failed_at[r] = "needs_migrate"
    /\ calls[r] # <<>>
    /\ calls[r][1].op = "alembic current"
    /\ calls[r][1].status # 0
    /\ \E t \in DOMAIN app.formation : app.formation[t] > 0

\* the platform accepted (and so applied) every PATCH formation of run r
PatchesAccepted(r) ==
  \A i \in 1..Len(calls[r]) :
    calls[r][i].op = "PATCH formation" => Accepted(calls[r][i].status)

\* formation f with the counts of g for the types both name
Overlay(f, g) ==
  [t \in DOMAIN f |-> IF t \in DOMAIN g THEN g[t] ELSE f[t]]

\* C7: in a migrating run in which the platform accepted every PATCH formation
\* and no step raised, the remote formation has, between scale_down and
\* scale_up, the types it had at the start with those the run read at 0, and
\* after scale_up the types it had at the start with the counts the run
\* cached; when the formation F the run read is the one the platform held,
\* that is: every type of F at 0 after scale_down, and F exactly after
\* scale_up, the same types with the same counts.
C7_ScaleRoundTrip ==
  \A r \in Proc :
    PatchesAccepted(r)
      => /\ pc[r] \in {"sleep_1", "alembic", "scale_up", "scale_up_patch"}
              => /\ app.formation =
                      Overlay(app0.formation, [t \in TypesAtScaleDown(r) |-> 0])
                 /\ BodiesDocumented(r)
                      => app.formation = [t \in DOMAIN app0.formation |-> 0]
         /\ pc[r] \in {"sleep_2", "set_maintenance_False", "returned"} /\ Migrates(r)
              => /\ app.formation = Overlay(app0.formation, _formation[r].map)
                 /\ BodiesDocumented(r)
                      => /\ _formation[r].map = app0.formation
                         /\ app.formation = _formation[r].map

C7_Witness ==
  \E r \in Proc :
    /\ pc[r] = "returned"
    /\ BodiesDocumented(r)
    /\ Migrates(r)
    /\ PatchesAccepted(r)
    /\ DOMAIN app0.formation = Types
    /\ app0.formation["web"] = MaxQty
    /\ app0.formation["worker"] = 0
    /\ app.formation = app0.formation

\* some call of run r got a status other than 200 (API) or other than 0 (alembic)
SomeStepNotOK(r) ==
  \E i \in 1..Len(calls[r]) :
    \/ IsApi(calls[r][i]) /\ calls[r][i].status # 200
    \/ IsProcess(calls[r][i]) /\ calls[r][i].status # 0

\* C8 as stated (outcome), for runs whose command line splits and that were
\* handed only documented bodies and UTF-8 output: a run that has ended has
\* failed (uncaught error, nonzero exit) exactly when some API call returned a
\* status other than 200 or some alembic invocation exited nonzero, and has
\* exit status 0 otherwise.
C8_OutcomeMatchesSteps ==
  \A r \in Proc :
    (exit_code[r] # NotExited /\ splits[r] /\ malformed[r] = {})
      => /\ exit_code[r] = ExitUncaught <=> SomeStepNotOK(r)
         /\ exit_code[r] = ExitSuccess <=> ~SomeStepNotOK(r)

\* C9 as stated: a run fetches the formation at most once, whatever the
\* formation is (the empty mapping included); scale_up sends no GET.
C9_FormationFetchedOnce ==
  \A r \in Proc : FormationGets(r) <= 1

\* the platform accepted set_maintenance(True) and the scale_down of run r
WentDown(r) ==
  /\ \E i \in 1..Len(calls[r]) :
       /\ calls[r][i].op = "PATCH app"
       /\ calls[r][i].maintenance
       /\ Accepted(calls[r][i].status)
  /\ \E i \in 1..Len(calls[r]) :
       /\ calls[r][i].op = "PATCH formation"
       /\ Accepted(calls[r][i].status)
       /\ \A j \in 1..(i - 1) : calls[r][j].op # "PATCH formation"

\* run r failed in alembic upgrade, or in scale_up with its request rejected
FailedBeforeScaleUp(r) ==
  \/ failed_at[r] = "alembic"
  \/ /\ failed_at[r] = "scale_up"
     /\ ~Accepted(calls[r][Len(calls[r])].status)

\* C10: when set_maintenance(True) and scale_down were accepted and the run
\* then fails because alembic upgrade fails or because the platform rejects
\* the request of scale_up, the run has ended and the remote app is in
\* maintenance mode; every process type scale_down named is at 0, and these
\* are all the types of the app when the formation the run read is the one
\* the platform held.
C10_FailureLeavesAppDown ==
  \A r \in Proc :
    (WentDown(r) /\ FailedBeforeScaleUp(r))
      => /\ pc[r] = "raised"
         /\ app.maintenance
         /\ DOMAIN app.formation = DOMAIN app0.formation
         /\ \A t \in TypesAtScaleDown(r) \cap DOMAIN app.formation : app.formation[t] = 0
         /\ BodiesDocumented(r) => \A t \in DOMAIN app.formation : app.formation[t] = 0

C10_Witness ==
  \E r \in Proc :
    /\ WentDown(r)
    /\ BodiesDocumented(r)
    /\ failed_at[r] = "scale_up"
    /\ calls[r][Len(calls[r])].op = "PATCH formation"
    /\ calls[r][Len(calls[r])].status = 500
    /\ ~app0.maintenance
    /\ \E t \in DOMAIN app0.formation : app0.formation[t] > 0

\* the platform answered every GET formation of run r with the formation it held
FormationReadTrue(r) == "formation" \notin malformed[r]

\* C11: in a migrating run over an app with no process types that reads the
\* formation as it is, every PATCH formation carries an empty update list;
\* the remote formation stays empty; the run fails only if some call is
\* answered with a status other than 200 (exit 0 for alembic), with a body
\* it cannot read or with output that is not UTF-8, and a run that returns
\* has gone through scale_down, alembic upgrade, scale_up and
\* set_maintenance(False) and exits 0.
C11_EmptyFormationIsNoError ==
  \A r \in Proc :
    (Migrates(r) /\ DOMAIN app0.formation = {})
      => /\ FormationReadTrue(r)
              => \A i \in 1..Len(calls[r]) :
                   calls[r][i].op = "PATCH formation"
                     => calls[r][i].updates = EmptyFormation
         /\ app.formation = EmptyFormation
         /\ (~SomeStepNotOK(r) /\ malformed[r] \subseteq {"formation"})
              => failed_at[r] = "none"
         /\ pc[r] = "returned"
              => /\ exit_code[r] = ExitSuccess
                 /\ FormationReadTrue(r)
                      => MutatingRequests(r) = ExpectedSequence(EmptyFormation)

C11_Witness ==
  \E r \in Proc :
    /\ Migrates(r)
    /\ DOMAIN app0.formation = {}
    /\ pc[r] = "returned"
    /\ exit_code[r] = ExitSuccess
    /\ ~SomeStepNotOK(r)
    /\ malformed[r] = {}
    /\ Len(SelectSeq(calls[r], LAMBDA c : c.op = "PATCH formation")) = 2

\* the text has the characters h, e, a, d next to each other in this order
HasHead(s) ==
  \E i \in 1..Len(s) :
    /\ i + 3 <= Len(s)
    /\ s[i] = "h" /\ s[i + 1] = "e" /\ s[i + 2] = "a" /\ s[i + 3] = "d"

\* C12: for every output text of a status command that exited with 0, the run
\* takes the migrate branch (needs_migrate returned True) exactly when the
\* text does not contain the head token and returns at once (needs_migrate
\* returned False) exactly when it does, whatever the remote app looks like.
C12_NeedsMigrateIffNoHead ==
  \A r \in Proc :
    StatusRead(r)
      => /\ pc[r] \in {"set_maintenance_True", "returned"}
         /\ pc[r] = "set_maintenance_True" <=> ~HasHead(cmd[r])
         /\ pc[r] = "returned" <=> HasHead(cmd[r])

C12_Witness ==
  \E r \in Proc :
    /\ StatusRead(r)
    /\ pc[r] = "returned"
    /\ Len(cmd[r]) = 5
    /\ cmd[r][1] = "x"
    /\ cmd[r][2] = "h"

\* run r is inside migrate()
Running(r) == pc[r] \notin {"not_invoked", "returned", "raised"}

AllZero(f) == \A t \in DOMAIN f : f[t] = 0

\* run r has just read the formation from the platform
FormationRead(r) ==
  /\ pc[r] \in {"scale_down", "scale_up"}
  /\ pc'[r] \in {"scale_down_patch", "scale_up_patch"}

\* scale_up of run r has just returned
ScaledUp(r) ==
  /\ pc[r] \in {"scale_up", "scale_up_patch"}
  /\ pc'[r] = "sleep_2"

\* C13: with two runs for the same app, a run inside migrate() can always take
\* its next step whatever the other run is doing (nothing blocks or rejects
\* it); a run that reads the formation caches whatever the platform holds at
\* that moment, the zeros left by the other run's scale_down included; and a
\* scale_up that returns has set the remote formation to the counts its own
\* run cached. The remote formation is always the initial one or all zeros.
C13_NoLockBetweenRuns ==
  /\ [](\A r \in Proc :
          /\ Running(r) => ENABLED RunStep(r)
          /\ app.formation \in {app0.formation, [t \in DOMAIN app0.formation |-> 0]})
  /\ [][\A r \in Proc :
          /\ FormationRead(r) => _formation'[r] = Some(app.formation)
          /\ ScaledUp(r) => app'.formation = _formation[r].map]_vars

\* both runs have ended in success, the second having cached the zeros of the
\* first one's scale_down, and every process type of the app is at 0
C13_Witness ==
  /\ \A r \in Proc : pc[r] = "returned" /\ exit_code[r] = ExitSuccess /\ Migrates(r)
  /\ \E t \in DOMAIN app0.formation : app0.formation[t] > 0
  /\ _formation[1].map = app0.formation
  /\ AllZero(_formation[2].map)
  /\ DOMAIN app.formation = DOMAIN app0.formation
  /\ AllZero(app.formation)

\* the positions before i at which run r sent a PATCH formation
PatchesBefore(r, i) == {k \in 1..(i - 1) : calls[r][k].op = "PATCH formation"}

\* the alembic upgrade of run r is about to start or has just ended
MigrationRunning(r) ==
  \/ pc[r] = "alembic"
  \/ calls[r] # <<>> /\ calls[r][Len(calls[r])].op = "alembic upgrade head"

\* C14: in a single run, alembic upgrade is invoked only after
\* set_maintenance(True) and then scale_down (every type at 0) have returned
\* and before any scale_up is sent; while the migration runs, given that the
\* platform accepted both requests, the remote maintenance flag is on and
\* every process type of the snapshot that the app has is at 0 (these are all
\* its types when the snapshot is true); and set_maintenance(False) is
\* sent only after scale_up, carrying the snapshot, has returned.
C14_MigrationRunsOnlyWhenDown ==
  \A r \in Proc :
    /\ \A i \in 1..Len(calls[r]) :
         calls[r][i].op = "alembic upgrade head"
           => /\ Cardinality(PatchesBefore(r, i)) = 1
              /\ \A k \in PatchesBefore(r, i) :
                   /\ AllZero(calls[r][k].updates)
                   /\ DOMAIN calls[r][k].updates = TypesAtScaleDown(r)
                   /\ \E j \in 1..(k - 1) :
                        calls[r][j].op = "PATCH app" /\ calls[r][j].maintenance
    /\ (MigrationRunning(r) /\ WentDown(r))
         => /\ app.maintenance
            /\ \A t \in DOMAIN _formation[r].map \cap DOMAIN app.formation :
                 app.formation[t] = 0
            /\ FormationReadTrue(r) => DOMAIN _formation[r].map = DOMAIN app.formation
    /\ \A i \in 1..Len(calls[r]) :
         (calls[r][i].op = "PATCH app" /\ ~calls[r][i].maintenance)
           => /\ Cardinality(PatchesBefore(r, i)) = 2
              /\ \E k \in PatchesBefore(r, i) :
                   /\ calls[r][k].updates = _formation[r].map
                   /\ \E j \in 1..(k - 1) : calls[r][j].op = "alembic upgrade head"

C14_Witness ==
  \E r \in Proc :
    /\ pc[r] = "scale_up"
    /\ calls[r][Len(calls[r])].op = "alembic upgrade head"
    /\ calls[r][Len(calls[r])].status = 0
    /\ WentDown(r)
    /\ ~app0.maintenance
    /\ \E t \in DOMAIN app0.formation : app0.formation[t] > 0

\* the platform accepted every PATCH app of run r
AppPatchesAccepted(r) ==
  \A i \in 1..Len(calls[r]) :
    calls[r][i].op = "PATCH app" => Accepted(calls[r][i].status)

\* C15: after a migrating run that returned, with its maintenance requests
\* accepted by the platform, the remote maintenance flag is off whatever it
\* was before the run; after a run that found the schema up to date the flag
\* has the value it had before the run.
C15_MaintenanceEndsOff ==
  \A r \in Proc :
    /\ (pc[r] = "returned" /\ Migrates(r) /\ AppPatchesAccepted(r)) => ~app.maintenance
    /\ (StatusRead(r) /\ ~Migrates(r)) => app.maintenance = app0.maintenance

C15_Witness ==
  \E r \in Proc :
    /\ pc[r] = "returned"
    /\ Migrates(r)
    /\ AppPatchesAccepted(r)
    /\ app0.maintenance
    /\ ~app.maintenance

====
